---- MODULE Spec2Model ----
(***************************************************************************)
(* SystemDiagramCard (plugins/catalog): the component that turns a system  *)
(* entity and the catalog entities assigned to it into the node and edge   *)
(* lists of a dependency graph, gated by the state of the catalog fetch.   *)
(*                                                                         *)
(* Strings that the code transforms (entity refs and node ids) are         *)
(* sequences of one-character strings, so that lowercasing, concatenation  *)
(* and replace() are computed character by character.  Edge labels and     *)
(* relation types are never transformed and stay plain strings.            *)
(***************************************************************************)
EXTENDS Integers, Sequences, FiniteSets, TLC

VARIABLES entity, loading, error, catalogResponse, effectPending,
          systemNodes, systemEdges, view

vars == <<entity, loading, error, catalogResponse, effectPending,
          systemNodes, systemEdges, view>>

\* Longest list of entities one catalog response carries in the model.
MaxItems == 2

\* JavaScript's undefined: an unset metadata.namespace, useAsync's unset
\* error and value.
Undefined == "undefined"
Absent == <<>>
\* useAsync's value: unset, or the catalog response with its items.
NoResponse == [defined |-> FALSE, items |-> <<>>]
Response(items) == [defined |-> TRUE, items |-> items]

(***************************************************************************)
(* String helpers                                                          *)
(***************************************************************************)
Upper == <<"A","B","C","D","E","F","G","H","I","J","K","L","M",
           "N","O","P","Q","R","S","T","U","V","W","X","Y","Z">>
Lower == <<"a","b","c","d","e","f","g","h","i","j","k","l","m",
           "n","o","p","q","r","s","t","u","v","w","x","y","z">>

\* String.prototype.toLocaleLowerCase('en-US') on one character.
LowerChar(c) ==
    IF \E i \in 1..26 : Upper[i] = c
    THEN Lower[CHOOSE i \in 1..26 : Upper[i] = c]
    ELSE c

toLocaleLowerCase(s) == [i \in 1..Len(s) |-> LowerChar(s[i])]

\* String.prototype.indexOf, 1-based; 0 when pat does not occur.
IndexOf(s, pat) ==
    LET hits == { i \in 1..(Len(s) - Len(pat) + 1) :
                    SubSeq(s, i, i + Len(pat) - 1) = pat }
    IN IF hits = {} THEN 0
       ELSE CHOOSE i \in hits : \A j \in hits : i <= j

\* String.prototype.replace with a string pattern: the first occurrence only.
replace(s, pat, rep) ==
    LET i == IndexOf(s, pat)
    IN IF i = 0 THEN s
       ELSE SubSeq(s, 1, i - 1) \o rep \o SubSeq(s, i + Len(pat), Len(s))

DefaultNsPattern == <<":">> \o <<"d", "e", "f", "a", "u", "l", "t">> \o <<"/">>

(***************************************************************************)
(* catalog-model / plugin-catalog-react helpers used by the component      *)
(***************************************************************************)
RELATION_PART_OF == "partOf"
RELATION_PROVIDES_API == "providesApi"
RELATION_DEPENDS_ON == "dependsOn"

\* `kind:namespace/name`; a segment that is not set is left out.
serializeEntityRef(ref) ==
    (IF ref.kind = Absent THEN <<>> ELSE ref.kind \o <<":">>)
    \o (IF ref.namespace = Absent THEN <<>> ELSE ref.namespace \o <<"/">>)
    \o ref.name

\* Targets of the entity's relations of one type, in the order of the
\* relations list.
RelationTargets(e, relationType) ==
    LET rs == SelectSeq(e.relations, LAMBDA r : r.type = relationType)
    IN [i \in 1..Len(rs) |-> rs[i].target]

\* getEntityRelations(entity, type): no kind filter.
getEntityRelations(e, relationType) == RelationTargets(e, relationType)

\* getEntityRelations(entity, type, {kind}): only targets of that kind.
getEntityRelationsOfKind(e, relationType, kind) ==
    SelectSeq(RelationTargets(e, relationType),
              LAMBDA t : toLocaleLowerCase(t.kind) = toLocaleLowerCase(kind))

(***************************************************************************)
(* simplifiedEntityName                                                    *)
(***************************************************************************)
\* Variant: the default namespace is not hidden.
simplifiedEntityName_NoReplace(ref) ==
    toLocaleLowerCase(serializeEntityRef(ref))

simplifiedEntityName(ref) ==
    replace(toLocaleLowerCase(serializeEntityRef(ref)), DefaultNsPattern, <<":">>)

(***************************************************************************)
(* Graph construction in SystemDiagramCard                                 *)
(***************************************************************************)
\* new Array<{ id }>() and new Array<{ from, to, label }>()
NewNodeArray == <<>>
NewEdgeArray == <<>>

\* push of the system itself
RootNode(e) == <<[id |-> simplifiedEntityName(e)]>>

\* Variant: the root's "part of" relations are not restricted to domains.
catalogItemDomain_AnyKind(e) == getEntityRelations(e, RELATION_PART_OF)

catalogItemDomain(e) == getEntityRelationsOfKind(e, RELATION_PART_OF, <<"d", "o", "m", "a", "i", "n">>)

\* Variant: the domains get edges but no nodes.
RootDomainNodes_Missing(e) == <<>>

RootDomainNodes(e) ==
    LET ds == catalogItemDomain(e)
    IN [i \in 1..Len(ds) |-> [id |-> simplifiedEntityName(ds[i])]]

RootDomainEdges(e) ==
    LET ds == catalogItemDomain(e)
    IN [i \in 1..Len(ds) |->
          [from |-> simplifiedEntityName(e),
           to |-> simplifiedEntityName(ds[i]),
           label |-> "part of"]]

ItemNode(catalogItem) == <<[id |-> simplifiedEntityName(catalogItem)]>>

\* Variant: the relation type is not looked at.
RelationEdges_AllTypes(catalogItem, relationType, label) ==
    [i \in 1..Len(catalogItem.relations) |->
          [from |-> simplifiedEntityName(catalogItem),
           to |-> simplifiedEntityName(catalogItem.relations[i].target),
           label |-> label]]

\* One forEach over the relations of one type: an edge per found relation.
RelationEdges(catalogItem, relationType, label) ==
    LET found == getEntityRelations(catalogItem, relationType)
    IN [i \in 1..Len(found) |->
          [from |-> simplifiedEntityName(catalogItem),
           to |-> simplifiedEntityName(found[i]),
           label |-> label]]

ItemPartOfEdges(catalogItem) ==
    RelationEdges(catalogItem, RELATION_PART_OF, "part of")

ItemProvidesApiEdges(catalogItem) ==
    RelationEdges(catalogItem, RELATION_PROVIDES_API, "provides API")

\* Variant: the relation type is used as the label.
ItemDependsOnEdges_RawLabel(catalogItem) ==
    RelationEdges(catalogItem, RELATION_DEPENDS_ON, RELATION_DEPENDS_ON)

ItemDependsOnEdges(catalogItem) ==
    RelationEdges(catalogItem, RELATION_DEPENDS_ON, "depends on")

\* Variant: the three relation kinds are processed in the opposite order.
ItemEdges_DependsFirst(catalogItem) ==
    ItemDependsOnEdges(catalogItem)
    \o ItemProvidesApiEdges(catalogItem)
    \o ItemPartOfEdges(catalogItem)

ItemEdges(catalogItem) ==
    ItemPartOfEdges(catalogItem)
    \o ItemProvidesApiEdges(catalogItem)
    \o ItemDependsOnEdges(catalogItem)

\* for (const catalogItem of catalogResponse.items): the pushes to systemNodes
RECURSIVE ItemsNodes(_)
ItemsNodes(items) ==
    IF items = <<>> THEN <<>>
    ELSE ItemNode(Head(items)) \o ItemsNodes(Tail(items))

\* for (const catalogItem of catalogResponse.items): the pushes to systemEdges
RECURSIVE ItemsEdges(_)
ItemsEdges(items) ==
    IF items = <<>> THEN <<>>
    ELSE ItemEdges(Head(items)) \o ItemsEdges(Tail(items))

\* if (catalogResponse && catalogResponse.items)
ResponseItems(response) ==
    IF response.defined THEN response.items ELSE <<>>

BuildNodes(e, response) ==
    NewNodeArray \o RootNode(e) \o RootDomainNodes(e)
    \o ItemsNodes(ResponseItems(response))

BuildEdges(e, response) ==
    NewEdgeArray \o RootDomainEdges(e) \o ItemsEdges(ResponseItems(response))

\* Variant: the error is looked at before the loading flag.
Output_ErrorFirst(isLoading, err, nodes, edges) ==
    IF err # Undefined
    THEN [element |-> "ResponseErrorPanel", error |-> err]
    ELSE IF isLoading THEN [element |-> "Progress"]
         ELSE [element |-> "InfoCard", nodes |-> nodes, edges |-> edges]

\* What the component returns.
Output(isLoading, err, nodes, edges) ==
    IF isLoading THEN [element |-> "Progress"]
    ELSE IF err # Undefined
         THEN [element |-> "ResponseErrorPanel", error |-> err]
         ELSE [element |-> "InfoCard", nodes |-> nodes, edges |-> edges]

\* Variant: the arrays outlive the call and every render pushes onto them.
Render_Accumulating(e, isLoading, err, response) ==
    /\ systemNodes' = systemNodes \o BuildNodes(e, response)
    /\ systemEdges' = systemEdges \o BuildEdges(e, response)
    /\ view' = Output(isLoading, err, systemNodes \o BuildNodes(e, response),
                      systemEdges \o BuildEdges(e, response))

\* One call of SystemDiagramCard() with the given context and hook state.
Render(e, isLoading, err, response) ==
    /\ systemNodes' = BuildNodes(e, response)
    /\ systemEdges' = BuildEdges(e, response)
    /\ view' = Output(isLoading, err, BuildNodes(e, response),
                      BuildEdges(e, response))

(***************************************************************************)
(* Entities of the model                                                   *)
(***************************************************************************)
SystemPayments ==
    [kind |-> <<"S", "y", "s", "t", "e", "m">>, namespace |-> <<"d", "e", "f", "a", "u", "l", "t">>, name |-> <<"p", "a", "y", "m", "e", "n", "t", "s">>,
     relations |-> <<
        [type |-> RELATION_PART_OF, target |-> [kind |-> <<"D", "o", "m", "a", "i", "n">>, namespace |-> <<"d", "e", "f", "a", "u", "l", "t">>, name |-> <<"r", "e", "t", "a", "i", "l">>]],
        [type |-> "hasPart", target |-> [kind |-> <<"C", "o", "m", "p", "o", "n", "e", "n", "t">>, namespace |-> <<"d", "e", "f", "a", "u", "l", "t">>, name |-> <<"c", "h", "e", "c", "k", "o", "u", "t">>]],
        [type |-> RELATION_PART_OF, target |-> [kind |-> <<"S", "y", "s", "t", "e", "m">>, namespace |-> <<"d", "e", "f", "a", "u", "l", "t">>, name |-> <<"p", "l", "a", "t", "f", "o", "r", "m">>]],
        [type |-> RELATION_PART_OF, target |-> [kind |-> <<"d", "o", "m", "a", "i", "n">>, namespace |-> <<"p", "r", "o", "d">>, name |-> <<"F", "i", "n", "a", "n", "c", "e">>]]>>]

SystemPaymentsProd ==
    [kind |-> <<"S", "y", "s", "t", "e", "m">>, namespace |-> <<"p", "r", "o", "d">>, name |-> <<"p", "a", "y", "m", "e", "n", "t", "s">>,
     relations |-> <<
        [type |-> RELATION_PART_OF, target |-> [kind |-> <<"S", "y", "s", "t", "e", "m">>, namespace |-> <<"d", "e", "f", "a", "u", "l", "t">>, name |-> <<"p", "l", "a", "t", "f", "o", "r", "m">>]],
        [type |-> RELATION_DEPENDS_ON, target |-> [kind |-> <<"D", "o", "m", "a", "i", "n">>, namespace |-> <<"d", "e", "f", "a", "u", "l", "t">>, name |-> <<"r", "e", "t", "a", "i", "l">>]]>>]

SystemBilling ==
    [kind |-> <<"S", "y", "s", "t", "e", "m">>, namespace |-> <<"D", "e", "f", "a", "u", "l", "t">>, name |-> <<"B", "i", "l", "l", "i", "n", "g">>,
     relations |-> <<>>]

RootEntities == {SystemPayments, SystemPaymentsProd, SystemBilling}

ComponentCheckout ==
    [kind |-> <<"C", "o", "m", "p", "o", "n", "e", "n", "t">>, namespace |-> <<"d", "e", "f", "a", "u", "l", "t">>, name |-> <<"c", "h", "e", "c", "k", "o", "u", "t">>,
     relations |-> <<
        [type |-> RELATION_DEPENDS_ON, target |-> [kind |-> <<"C", "o", "m", "p", "o", "n", "e", "n", "t">>, namespace |-> <<"d", "e", "f", "a", "u", "l", "t">>, name |-> <<"c", "a", "r", "t">>]],
        [type |-> "ownedBy", target |-> [kind |-> <<"G", "r", "o", "u", "p">>, namespace |-> <<"d", "e", "f", "a", "u", "l", "t">>, name |-> <<"t", "e", "a", "m">>]],
        [type |-> RELATION_PROVIDES_API, target |-> [kind |-> <<"A", "P", "I">>, namespace |-> <<"d", "e", "f", "a", "u", "l", "t">>, name |-> <<"p", "a", "y">>]],
        [type |-> RELATION_PART_OF, target |-> [kind |-> <<"S", "y", "s", "t", "e", "m">>, namespace |-> <<"d", "e", "f", "a", "u", "l", "t">>, name |-> <<"p", "a", "y", "m", "e", "n", "t", "s">>]]>>]

ApiPay ==
    [kind |-> <<"A", "P", "I">>, namespace |-> <<"d", "e", "f", "a", "u", "l", "t">>, name |-> <<"p", "a", "y">>,
     relations |-> <<
        [type |-> "apiProvidedBy", target |-> [kind |-> <<"C", "o", "m", "p", "o", "n", "e", "n", "t">>, namespace |-> <<"d", "e", "f", "a", "u", "l", "t">>, name |-> <<"c", "h", "e", "c", "k", "o", "u", "t">>]]>>]

ResourceDb ==
    [kind |-> <<"R", "e", "s", "o", "u", "r", "c", "e">>, namespace |-> Absent, name |-> <<"d", "b">>,
     relations |-> <<>>]

ComponentLedger ==
    [kind |-> <<"C", "o", "m", "p", "o", "n", "e", "n", "t">>, namespace |-> <<"p", "r", "o", "d">>, name |-> <<"L", "e", "d", "g", "e", "r">>,
     relations |-> <<
        [type |-> RELATION_DEPENDS_ON, target |-> [kind |-> <<"R", "e", "s", "o", "u", "r", "c", "e">>, namespace |-> <<"d", "e", "f", "a", "u", "l", "t">>, name |-> <<"d", "b">>]],
        [type |-> RELATION_PART_OF, target |-> [kind |-> <<"D", "o", "m", "a", "i", "n">>, namespace |-> <<"d", "e", "f", "a", "u", "l", "t">>, name |-> <<"r", "e", "t", "a", "i", "l">>]],
        [type |-> RELATION_DEPENDS_ON, target |-> [kind |-> <<"r", "e", "s", "o", "u", "r", "c", "e">>, namespace |-> <<"D", "e", "f", "a", "u", "l", "t">>, name |-> <<"D", "B">>]]>>]

DomainRetail ==
    [kind |-> <<"D", "o", "m", "a", "i", "n">>, namespace |-> <<"d", "e", "f", "a", "u", "l", "t">>, name |-> <<"r", "e", "t", "a", "i", "l">>,
     relations |-> <<>>]

CatalogEntities ==
    {ComponentCheckout, ApiPay, ResourceDb, ComponentLedger, DomainRetail}

\* Lists of at most n entities of S; the catalog returns an entity once.
Responses(S, n) ==
    { s \in UNION { [1..k -> S] : k \in 0..n } :
        \A i, j \in DOMAIN s : s[i] = s[j] => i = j }

\* Refs the normalisation is exercised on: every kind/namespace/name mix.
RefKinds == {<<"S", "y", "s", "t", "e", "m">>, <<"d", "o", "m", "a", "i", "n">>, <<"A", "P", "I">>, <<"C", "o", "m", "p", "o", "n", "e", "n", "t">>, <<"R", "e", "s", "o", "u", "r", "c", "e">>}
RefNamespaces == {Absent, <<"d", "e", "f", "a", "u", "l", "t">>, <<"D", "e", "f", "a", "u", "l", "t">>, <<"p", "r", "o", "d">>, <<"d", "e", "f", "a", "u", "l", "t", "s">>}
RefNames == {<<"p", "a", "y", "m", "e", "n", "t", "s">>, <<"C", "a", "r", "t">>, <<"d", "b">>, <<"d", "e", "f", "a", "u", "l", "t">>, <<"p", "a", "y", "-", "A", "P", "I">>}
RefEntities ==
    { [kind |-> k, namespace |-> ns, name |-> n, relations |-> <<>>] :
        k \in RefKinds, ns \in RefNamespaces, n \in RefNames }

ErrorValues == {"ResponseError"}

(***************************************************************************)
(* State machine                                                           *)
(***************************************************************************)
\* First render: useAsync starts in the loading state with no value.
InitWith(roots) ==
    /\ entity \in roots
    /\ loading = TRUE
    /\ error = Undefined
    /\ catalogResponse = NoResponse
    /\ effectPending = FALSE
    /\ systemNodes = BuildNodes(entity, NoResponse)
    /\ systemEdges = BuildEdges(entity, NoResponse)
    /\ view = Output(TRUE, Undefined, systemNodes, systemEdges)

Init == InitWith(RootEntities)

\* getEntities resolves: useAsync sets { value, loading: false }.
FetchResolve(items) ==
    /\ loading
    /\ loading' = FALSE
    /\ error' = Undefined
    /\ catalogResponse' = Response(items)
    /\ Render(entity, FALSE, Undefined, Response(items))
    /\ UNCHANGED <<entity, effectPending>>

\* getEntities rejects: useAsync sets { error, loading: false }.
FetchReject(err) ==
    /\ loading
    /\ loading' = FALSE
    /\ error' = err
    /\ catalogResponse' = NoResponse
    /\ Render(entity, FALSE, err, NoResponse)
    /\ UNCHANGED <<entity, effectPending>>

\* useEntity() hands out another entity: the component renders with the hook
\* state it has; the fetch restarts afterwards when the system name changed.
ChangeEntity(e) ==
    /\ e # entity
    /\ entity' = e
    /\ effectPending' = (effectPending \/ e.name # entity.name)
    /\ Render(e, loading, error, catalogResponse)
    /\ UNCHANGED <<loading, error, catalogResponse>>

\* The dependency list [catalogApi, currentSystemName] changed: useAsync calls
\* getEntities again, keeps the previous value and error, sets loading.
StartFetch ==
    /\ effectPending
    /\ effectPending' = FALSE
    /\ loading' = TRUE
    /\ Render(entity, TRUE, error, catalogResponse)
    /\ UNCHANGED <<entity, error, catalogResponse>>

\* The parent renders again with nothing changed.
Rerender ==
    /\ Render(entity, loading, error, catalogResponse)
    /\ UNCHANGED <<entity, loading, error, catalogResponse, effectPending>>

Next ==
    \/ \E items \in Responses(CatalogEntities, MaxItems) : FetchResolve(items)
    \/ \E err \in ErrorValues : FetchReject(err)
    \/ \E e \in RootEntities : ChangeEntity(e)
    \/ StartFetch
    \/ Rerender

Spec == Init /\ [][Next]_vars

\* The normalisation alone: the card is rendered for every ref in turn.
InitNormalize == InitWith(RefEntities)

NextNormalize ==
    \/ \E e \in RefEntities : ChangeEntity(e)
    \/ StartFetch

SpecNormalize == InitNormalize /\ [][NextNormalize]_vars

(***************************************************************************)
(* Properties                                                              *)
(***************************************************************************)
Items == ResponseItems(catalogResponse)
NodeIds == { systemNodes[i].id : i \in DOMAIN systemNodes }
EdgeSet == { systemEdges[k] : k \in DOMAIN systemEdges }
RootId == simplifiedEntityName(entity)
ItemIds == { simplifiedEntityName(Items[i]) : i \in DOMAIN Items }
Labels == {"part of", "provides API", "depends on"}
HandledTypes == {RELATION_PART_OF, RELATION_PROVIDES_API, RELATION_DEPENDS_ON}
LabelOf(type) ==
    CASE type = RELATION_PART_OF -> "part of"
      [] type = RELATION_PROVIDES_API -> "provides API"
      [] type = RELATION_DEPENDS_ON -> "depends on"
      [] OTHER -> "none"
RelationsOfType(e, type) == SelectSeq(e.relations, LAMBDA r : r.type = type)
IsDomainRef(t) == toLocaleLowerCase(t.kind) = <<"d", "o", "m", "a", "i", "n">>
RootDomainRelations ==
    SelectSeq(entity.relations,
              LAMBDA r : r.type = RELATION_PART_OF /\ IsDomainRef(r.target))
IsDomainId(id) == Len(id) >= 7 /\ SubSeq(id, 1, 7) = <<"d", "o", "m", "a", "i", "n">> \o <<":">>
EdgeCountOf(e) ==
    Len(RelationsOfType(e, RELATION_PART_OF))
    + Len(RelationsOfType(e, RELATION_PROVIDES_API))
    + Len(RelationsOfType(e, RELATION_DEPENDS_ON))
\* Number of edges pushed before the i-th related entity is processed.
RECURSIVE EdgeOffset(_)
EdgeOffset(i) ==
    IF i = 1 THEN Len(RootDomainRelations)
    ELSE EdgeOffset(i - 1) + EdgeCountOf(Items[i - 1])
EdgeOf(e, r) ==
    [from |-> simplifiedEntityName(e), to |-> simplifiedEntityName(r.target),
     label |-> LabelOf(r.type)]

\* C1: the node list holds at most one entry per distinct id; a related
\* entity or root domain whose normalized id is already present does not get
\* a second entry.
C1_NoDuplicateIds ==
    \A i, j \in DOMAIN systemNodes :
        systemNodes[i].id = systemNodes[j].id => i = j

\* C2: every "part of", "provides API" or "depends on" relation of a related
\* entity yields an edge to its target and a node whose id is the target's
\* normalized id, also when the target is not among the fetched entities.
C2_DanglingTargetsAreNodes ==
    \A i \in DOMAIN Items : \A j \in DOMAIN Items[i].relations :
        LET r == Items[i].relations[j]
        IN r.type \in HandledTypes =>
             /\ EdgeOf(Items[i], r) \in EdgeSet
             /\ simplifiedEntityName(r.target) \in NodeIds

\* C3: nodes and edges are in insertion order: the root first, then the
\* root's domains, then one node per related entity in input order; the edges
\* are the root's domain edges, then per related entity in input order its
\* "part of", then "provides API", then "depends on" edges.
C3_InsertionOrder ==
    LET nd == Len(RootDomainRelations)
    IN /\ Len(systemNodes) = 1 + nd + Len(Items)
       /\ systemNodes[1].id = RootId
       /\ \A k \in 1..nd :
            systemNodes[1 + k].id =
                simplifiedEntityName(RootDomainRelations[k].target)
       /\ \A i \in DOMAIN Items :
            systemNodes[1 + nd + i].id = simplifiedEntityName(Items[i])
       /\ Len(systemEdges) = EdgeOffset(Len(Items) + 1)
       /\ \A k \in 1..nd :
            systemEdges[k] = EdgeOf(entity, RootDomainRelations[k])
       /\ \A i \in DOMAIN Items :
            LET po == RelationsOfType(Items[i], RELATION_PART_OF)
                pa == RelationsOfType(Items[i], RELATION_PROVIDES_API)
                dp == RelationsOfType(Items[i], RELATION_DEPENDS_ON)
                base == EdgeOffset(i)
            IN /\ \A n \in DOMAIN po :
                    systemEdges[base + n] = EdgeOf(Items[i], po[n])
               /\ \A n \in DOMAIN pa :
                    systemEdges[base + Len(po) + n] = EdgeOf(Items[i], pa[n])
               /\ \A n \in DOMAIN dp :
                    systemEdges[base + Len(po) + Len(pa) + n] =
                        EdgeOf(Items[i], dp[n])

C3_Witness ==
    /\ view.element = "InfoCard"
    /\ entity = SystemPayments
    /\ Items = <<ComponentLedger, ComponentCheckout>>
    /\ Len(systemNodes) = 5
    /\ Len(systemEdges) = 8

\* C4: every "part of" relation of the root to a domain yields a node for the
\* domain and an edge root -> domain labeled "part of", fetched or not; a
\* "part of" relation of the root to another kind yields neither, and a root
\* without domain relation has no "part of" edge to a domain node.
C4_RootDomains ==
    /\ \A j \in DOMAIN entity.relations :
         LET r == entity.relations[j]
             target == simplifiedEntityName(r.target)
             edge == [from |-> RootId, to |-> target, label |-> "part of"]
         IN r.type = RELATION_PART_OF =>
              IF IsDomainRef(r.target)
              THEN target \in NodeIds /\ edge \in EdgeSet
              ELSE edge \notin EdgeSet
    /\ RootDomainRelations = <<>> =>
         \A k \in DOMAIN systemEdges :
            ~ (/\ systemEdges[k].from = RootId
               /\ systemEdges[k].label = "part of"
               /\ IsDomainId(systemEdges[k].to))

C4_Witness ==
    /\ entity = SystemPayments
    /\ catalogResponse.defined
    /\ \A i \in DOMAIN Items : Items[i].kind # <<"D", "o", "m", "a", "i", "n">>
    /\ [id |-> <<"d", "o", "m", "a", "i", "n", ":", "p", "r", "o", "d", "/", "f", "i", "n", "a", "n", "c", "e">>] \in { systemNodes[i] : i \in DOMAIN systemNodes }
    /\ [from |-> RootId, to |-> <<"d", "o", "m", "a", "i", "n", ":", "p", "r", "o", "d", "/", "f", "i", "n", "a", "n", "c", "e">>, label |-> "part of"] \in EdgeSet

\* C5: the edges from a related entity are exactly one edge entity -> target
\* per outbound "part of", "provides API" or "depends on" relation, with the
\* matching label and with repetitions kept; other relation types give
\* nothing, and every related entity has a node, with or without relations.
C5_EdgesPerRelation ==
    LET RelationIndexes(i) ==
            { j \in DOMAIN Items[i].relations :
                Items[i].relations[j].type \in HandledTypes }
        expected ==
            UNION { { EdgeOf(Items[i], Items[i].relations[j]) :
                        j \in RelationIndexes(i) } : i \in DOMAIN Items }
        Pushed(e) == { k \in DOMAIN systemEdges : systemEdges[k] = e }
        Related(e) ==
            UNION { { <<i, j>> : j \in { n \in RelationIndexes(i) :
                        EdgeOf(Items[i], Items[i].relations[n]) = e } } :
                    i \in DOMAIN Items }
    IN /\ \A e \in EdgeSet \cup expected :
            e.from \in ItemIds =>
                Cardinality(Pushed(e)) = Cardinality(Related(e))
       /\ \A i \in DOMAIN Items : simplifiedEntityName(Items[i]) \in NodeIds

C5_Witness ==
    /\ Items = <<ResourceDb, ComponentLedger>>
    /\ simplifiedEntityName(ResourceDb) \in NodeIds
    /\ \A k \in DOMAIN systemEdges :
         systemEdges[k].from # simplifiedEntityName(ResourceDb)
    /\ \E k1, k2 \in DOMAIN systemEdges :
         k1 # k2 /\ systemEdges[k1] = systemEdges[k2]

\* C6: every edge is labeled "part of", "provides API" or "depends on".
C6_LabelsAreFixed ==
    \A k \in DOMAIN systemEdges : systemEdges[k].label \in Labels

C6_Witness ==
    \A l \in Labels : \E k \in DOMAIN systemEdges : systemEdges[k].label = l

\* C7: the normalized id of a ref is lowercase kind:namespace/name when the
\* namespace is not the default one, and lowercase kind:name when it is (set
\* to "default" in any letter case, or not set); kind and name are only
\* lowercased.
C7_NormalizedId ==
    LET kind == toLocaleLowerCase(entity.kind)
        name == toLocaleLowerCase(entity.name)
        namespace == toLocaleLowerCase(entity.namespace)
    IN systemNodes[1].id =
         IF entity.namespace = Absent \/ namespace = <<"d", "e", "f", "a", "u", "l", "t">>
         THEN kind \o <<":">> \o name
         ELSE kind \o <<":">> \o namespace \o <<"/">> \o name

C7_Witness ==
    /\ entity.kind = <<"C", "o", "m", "p", "o", "n", "e", "n", "t">>
    /\ entity.namespace = <<"d", "e", "f", "a", "u", "l", "t">>
    /\ entity.name = <<"C", "a", "r", "t">>
    /\ systemNodes[1].id = <<"c", "o", "m", "p", "o", "n", "e", "n", "t", ":", "c", "a", "r", "t">>

\* C8: while the fetch is in flight only the progress indicator is returned,
\* error set or not; a failed fetch that is not in flight returns the error
\* panel; the diagram gets the node and edge lists only when the fetch is
\* neither loading nor failed.
C8_FetchStateGates ==
    /\ loading => view.element = "Progress"
    /\ (~loading /\ error # Undefined) =>
          view.element = "ResponseErrorPanel" /\ view.error = error
    /\ (~loading /\ error = Undefined) =>
          /\ view.element = "InfoCard"
          /\ view.nodes = systemNodes
          /\ view.edges = systemEdges

C8_Witness ==
    /\ loading
    /\ error # Undefined
    /\ view.element = "Progress"

\* C9: a render's node and edge lists depend only on that render's root
\* entity and fetched list: rendering again with the same two gives the same
\* lists, and no list is longer than what these inputs account for.
C9_RebuiltOnEveryRender ==
    [][ /\ (entity' = entity /\ catalogResponse' = catalogResponse) =>
            (systemNodes' = systemNodes /\ systemEdges' = systemEdges)
        /\ Len(systemNodes') <=
             1 + Len(entity'.relations) + Len(ResponseItems(catalogResponse'))
      ]_vars

C9_Witness ==
    /\ ~loading
    /\ effectPending
    /\ catalogResponse.defined
    /\ Len(Items) = MaxItems
    /\ view.element = "InfoCard"
    /\ view.nodes[1].id = RootId

\* C10: the "from" of every edge is the id of a node of the list, and the
\* "to" of every edge that starts at the root is one as well.
C10_EdgeEndpoints ==
    \A k \in DOMAIN systemEdges :
        /\ systemEdges[k].from \in NodeIds
        /\ systemEdges[k].from = RootId => systemEdges[k].to \in NodeIds

C10_Witness ==
    /\ entity = SystemPayments
    /\ \E k \in DOMAIN systemEdges : systemEdges[k].from = RootId
    /\ \E k \in DOMAIN systemEdges :
         /\ systemEdges[k].from = simplifiedEntityName(ComponentCheckout)
         /\ systemEdges[k].to \notin NodeIds

====
